---- MODULE Spec2Model ----
(***************************************************************************)
(* Model of backend/main.py of agri-intel-agent: the FastAPI handlers      *)
(* get_farm_analysis (POST /api/get-farm-analysis) and                     *)
(* check_database_connection (GET /api/db-check), with the three data      *)
(* functions they call and the TiDB connection they open.                  *)
(*                                                                         *)
(* One run of get_farm_analysis is followed statement by statement through *)
(* pc; requests are served one after another.  What the outside world      *)
(* answers (the store's rows, a mysql.connector.Error at some call, the    *)
(* LLM provider's reply or exception) is drawn from small sets.            *)
(***************************************************************************)
EXTENDS Integers, Sequences, FiniteSets, TLC

\* ------------------------------------------------------------------ bounds
MaxRequests == 2      \* POST /api/get-farm-analysis requests served
MaxDbChecks == 1      \* GET /api/db-check requests served

\* ------------------------------------------------------------------ inputs
Locations == {"Stellenbosch", "Paarl"}
Crops     == {"grapes"}

\* historical_precedent_column values a stored row may carry
Precedents == {"Downy mildew outbreak 2019", ""}

\* response.content values the model may answer with
Contents == {"Risk Assessment: high. Recommended Action: spray.", ""}

\* str(e) of the exceptions chain.invoke may raise
LlmErrors == {"Request timed out.", "Incorrect API key provided", ""}

\* the call inside the try block at which mysql.connector.Error is raised
DbFailPoints == {"none", "connect", "cursor", "execute", "fetchone"}

\* ------------------------------------------------------- values of locals
Unbound  == [bound |-> FALSE, value |-> ""]
Bound(v) == [bound |-> TRUE, value |-> v]

NoResponse == [code |-> 0, status |-> "", analysis |-> "", message |-> "", detail |-> ""]

\* return {"status": "success", "analysis": response.content}
SuccessBody(content) ==
    [code |-> 200, status |-> "success", analysis |-> content, message |-> "", detail |-> ""]

\* return {"status": "error", "message": e.detail}
ErrorBody(detail) ==
    [code |-> 200, status |-> "error", analysis |-> "", message |-> detail, detail |-> ""]

\* raise HTTPException(status_code=500, detail=...)
HTTPException500(detail) ==
    [code |-> 500, status |-> "", analysis |-> "", message |-> "", detail |-> detail]

\* an exception no handler catches leaves the endpoint: the framework answers
\* 500 with its fixed text
UnhandledException ==
    [code |-> 500, status |-> "", analysis |-> "", message |-> "", detail |-> "Internal Server Error"]

\* --------------------------------------------------------- data functions
\* get_weather_data: the mock, which returns its fixed forecast and raises nothing
get_weather_data(location) ==
    [raised |-> FALSE, detail |-> "",
     forecast |-> "14-day forecast shows high humidity and rising temperatures."]

\* get_satellite_data: the mock, which returns its fixed analysis and raises nothing
get_satellite_data(location) ==
    [raised |-> FALSE, detail |-> "",
     ndvi_analysis |-> "NDVI readings indicate moderate plant stress in Block B."]

NotFoundText == "No similar historical data found."
ErrorText    == "Error querying historical data."

\* SELECT ... WHERE location = %s AND crop = %s LIMIT 1, then fetchone():
\* <<>> when no row matches, <<column>> otherwise
FetchOne(table, location, crop) == table[<<location, crop>>]

\* PrecedentOf with an empty result reported like a failed query
PrecedentOf_Conflated(result) ==
    IF result # <<>> THEN result[1] ELSE ErrorText

\* if result: result[0]  else: the placeholder
PrecedentOf(result) ==
    IF result # <<>> THEN result[1] ELSE NotFoundText

\* query_tidb_history.  fail is the call that raises mysql.connector.Error
\* ("none": no call does).  The result carries the returned text, whether a
\* connection was opened, and whether connection.close() ran.
query_tidb_history(location, crop, table, fail) ==
    IF fail = "connect"
    THEN [raised |-> FALSE, detail |-> "", historical_precedent |-> ErrorText,
          opened |-> FALSE, closed |-> FALSE]
    ELSE IF fail \in {"cursor", "execute", "fetchone"}
    THEN [raised |-> FALSE, detail |-> "", historical_precedent |-> ErrorText,
          opened |-> TRUE, closed |-> FALSE]
    ELSE [raised |-> FALSE, detail |-> "",
          historical_precedent |-> PrecedentOf(FetchOne(table, location, crop)),
          opened |-> TRUE, closed |-> TRUE]

\* llm = ChatOpenAI(model="gpt-4o", openai_api_key=os.getenv("OPENAI_API_KEY")):
\* with the key present the client is built.  With None for a key the
\* library either refuses to build the client (an exception at this line,
\* which no try encloses) or builds one whose calls the provider rejects.
ChatOpenAI(key_present) ==
    IF key_present THEN {"built"} ELSE {"built", "raises"}

\* what chain.invoke may do: answer with a message, or raise.  Without a key
\* the provider rejects the call.
ChainInvoke(key_present) ==
    {[raised |-> TRUE, content |-> "", error |-> e] : e \in LlmErrors}
    \cup (IF key_present
          THEN {[raised |-> FALSE, content |-> c, error |-> ""] : c \in Contents}
          ELSE {})

\* the dict handed to chain.invoke
InvokeArgs(req, weather, satellite, history) ==
    [bound |-> TRUE,
     location  |-> req.farm_location,
     crop_type |-> req.crop_type,
     weather   |-> weather.value,
     satellite |-> satellite.value,
     history   |-> history.value]

\* InvokeResult with the exception's text returned as the analysis
InvokeResult_Swallow(out) ==
    IF out.raised
    THEN SuccessBody("LLM error: " \o out.error)
    ELSE SuccessBody(out.content)

\* the try/except around chain.invoke: the answer on return, and on Exception
InvokeResult(out) ==
    IF out.raised
    THEN HTTPException500("LLM error: " \o out.error)
    ELSE SuccessBody(out.content)

DbVersion == "8.0.11-TiDB-v7.5.2"

\* check_database_connection.  fail as in query_tidb_history.
check_database_connection(fail) ==
    IF fail = "connect"
    THEN [answer |-> HTTPException500("Can't connect to MySQL server"),
          opened |-> FALSE, closed |-> FALSE]
    ELSE IF fail \in {"cursor", "execute", "fetchone"}
    THEN [answer |-> HTTPException500("Lost connection to MySQL server during query"),
          opened |-> TRUE, closed |-> FALSE]
    ELSE [answer |-> [code |-> 200, status |-> "success", analysis |-> "",
                      message |-> "", detail |-> DbVersion],
          opened |-> TRUE, closed |-> TRUE]

\* ------------------------------------------------------------------ state
VARIABLES
    env,              \* os.getenv: which settings are present (fixed per process)
    history_table,    \* historical_data_table: (location, crop) -> <<>> or <<column>>
    pc,               \* position of the current get_farm_analysis run
    request,          \* FarmDataRequest of the current run
    weather_data,     \* local of get_farm_analysis
    satellite_data,   \* local of get_farm_analysis
    historical_data,  \* local of get_farm_analysis
    invoke_args,      \* the dict handed to chain.invoke, once it is called
    response,         \* what the endpoint answered for the current run
    calls,            \* per run: how often each source / the LLM was called
    db_fail,          \* per run: the call of query_tidb_history that raised
    llm_raised,       \* per run: "none", "no" or "yes": did chain.invoke raise
    open_connections, \* connections opened and not closed
    nreq,             \* analysis requests received
    db_check,         \* answer of the last GET /api/db-check
    nchecks           \* db-check requests served

vars == <<env, history_table, pc, request, weather_data, satellite_data,
          historical_data, invoke_args, response, calls, db_fail, llm_raised,
          open_connections, nreq, db_check, nchecks>>

run_vars == <<request, weather_data, satellite_data, historical_data,
              invoke_args, response, calls, db_fail, llm_raised>>

Stages == {"Weather", "Satellite", "History", "LLM"}

NoArgs == [bound |-> FALSE, location |-> "", crop_type |-> "", weather |-> "",
           satellite |-> "", history |-> ""]

Init ==
    /\ env \in [openai_api_key : BOOLEAN, db_params : BOOLEAN]
    /\ history_table \in [Locations \X Crops -> {<<>>} \cup {<<p>> : p \in Precedents}]
    /\ pc = "idle"
    /\ request = [farm_location |-> "", crop_type |-> ""]
    /\ weather_data = Unbound
    /\ satellite_data = Unbound
    /\ historical_data = Unbound
    /\ invoke_args = NoArgs
    /\ response = NoResponse
    /\ calls = [s \in Stages |-> 0]
    /\ db_fail = "unset"
    /\ llm_raised = "none"
    /\ open_connections = 0
    /\ nreq = 0
    /\ db_check = NoResponse
    /\ nchecks = 0

\* A call of mysql.connector.connect without host, user, password or database
\* cannot log in: it raises mysql.connector.Error.
DbFailures == IF env.db_params THEN DbFailPoints ELSE {"connect"}

\* the values the state takes
TypeOK ==
    /\ env \in [openai_api_key : BOOLEAN, db_params : BOOLEAN]
    /\ history_table \in [Locations \X Crops -> {<<>>} \cup {<<p>> : p \in Precedents}]
    /\ pc \in {"idle", "weather", "satellite", "history", "setup_llm", "invoke", "done"}
    /\ request.farm_location \in Locations \cup {""}
    /\ request.crop_type \in Crops \cup {""}
    /\ weather_data.bound \in BOOLEAN
    /\ satellite_data.bound \in BOOLEAN
    /\ historical_data.bound \in BOOLEAN
    /\ invoke_args.bound \in BOOLEAN
    /\ response.code \in {0, 200, 500}
    /\ calls \in [Stages -> 0..1]
    /\ db_fail \in DbFailPoints \cup {"unset"}
    /\ llm_raised \in {"none", "no", "yes"}
    /\ open_connections \in 0..(MaxRequests + MaxDbChecks)
    /\ nreq \in 0..MaxRequests
    /\ db_check.code \in {0, 200, 500}
    /\ nchecks \in 0..MaxDbChecks

\* ---------------------------------------------------------------- actions
\* the endpoint is entered with a request body
ReceiveRequest ==
    /\ pc \in {"idle", "done"}
    /\ nreq < MaxRequests
    /\ \E l \in Locations, c \in Crops :
          request' = [farm_location |-> l, crop_type |-> c]
    /\ weather_data' = Unbound
    /\ satellite_data' = Unbound
    /\ historical_data' = Unbound
    /\ invoke_args' = NoArgs
    /\ response' = NoResponse
    /\ calls' = [s \in Stages |-> 0]
    /\ db_fail' = "unset"
    /\ llm_raised' = "none"
    /\ nreq' = nreq + 1
    /\ pc' = "weather"
    /\ UNCHANGED <<env, history_table, open_connections, db_check, nchecks>>

\* weather_data = get_weather_data(request.farm_location), inside the try
FetchWeather ==
    /\ pc = "weather"
    /\ LET r == get_weather_data(request.farm_location) IN
         /\ calls' = [calls EXCEPT !["Weather"] = @ + 1]
         /\ IF r.raised
            THEN /\ response' = ErrorBody(r.detail)
                 /\ pc' = "done"
                 /\ UNCHANGED weather_data
            ELSE /\ weather_data' = Bound(r.forecast)
                 /\ pc' = "satellite"
                 /\ UNCHANGED response
    /\ UNCHANGED <<env, history_table, request, satellite_data, historical_data,
                   invoke_args, db_fail, llm_raised, open_connections, nreq,
                   db_check, nchecks>>

\* FetchSatellite going on to the LLM setup without the history lookup
FetchSatellite_SkipHistory ==
    /\ pc = "satellite"
    /\ LET r == get_satellite_data(request.farm_location) IN
         /\ calls' = [calls EXCEPT !["Satellite"] = @ + 1]
         /\ satellite_data' = Bound(r.ndvi_analysis)
         /\ pc' = "setup_llm"
         /\ UNCHANGED response
    /\ UNCHANGED <<env, history_table, request, weather_data, historical_data,
                   invoke_args, db_fail, llm_raised, open_connections, nreq,
                   db_check, nchecks>>

\* satellite_data = get_satellite_data(request.farm_location), inside the try
FetchSatellite ==
    /\ pc = "satellite"
    /\ LET r == get_satellite_data(request.farm_location) IN
         /\ calls' = [calls EXCEPT !["Satellite"] = @ + 1]
         /\ IF r.raised
            THEN /\ response' = ErrorBody(r.detail)
                 /\ pc' = "done"
                 /\ UNCHANGED satellite_data
            ELSE /\ satellite_data' = Bound(r.ndvi_analysis)
                 /\ pc' = "history"
                 /\ UNCHANGED response
    /\ UNCHANGED <<env, history_table, request, weather_data, historical_data,
                   invoke_args, db_fail, llm_raised, open_connections, nreq,
                   db_check, nchecks>>

\* historical_data = query_tidb_history(...), inside the try
FetchHistory ==
    /\ pc = "history"
    /\ \E fail \in DbFailures :
         LET r == query_tidb_history(request.farm_location, request.crop_type,
                                     history_table, fail) IN
         /\ calls' = [calls EXCEPT !["History"] = @ + 1]
         /\ db_fail' = fail
         /\ open_connections' =
               IF r.opened /\ ~r.closed THEN open_connections + 1 ELSE open_connections
         /\ IF r.raised
            THEN /\ response' = ErrorBody(r.detail)
                 /\ pc' = "done"
                 /\ UNCHANGED historical_data
            ELSE /\ historical_data' = Bound(r.historical_precedent)
                 /\ pc' = "setup_llm"
                 /\ UNCHANGED response
    /\ UNCHANGED <<env, history_table, request, weather_data, satellite_data,
                   invoke_args, llm_raised, nreq, db_check, nchecks>>

\* llm = ChatOpenAI(...); prompt_template = ...; chain = prompt_template | llm
SetupLLM ==
    /\ pc = "setup_llm"
    /\ \E built \in ChatOpenAI(env.openai_api_key) :
         IF built = "raises"
         THEN /\ response' = UnhandledException
              /\ pc' = "done"
         ELSE /\ pc' = "invoke"
              /\ UNCHANGED response
    /\ UNCHANGED <<env, history_table, request, weather_data, satellite_data,
                   historical_data, invoke_args, calls, db_fail, llm_raised,
                   open_connections, nreq, db_check, nchecks>>

\* InvokeLLM calling the model again after an exception
InvokeLLM_Retry ==
    /\ pc = "invoke"
    /\ invoke_args' = InvokeArgs(request, weather_data, satellite_data, historical_data)
    /\ calls' = [calls EXCEPT !["LLM"] = @ + 1]
    /\ \E out \in ChainInvoke(env.openai_api_key) :
         /\ llm_raised' = IF out.raised THEN "yes" ELSE "no"
         /\ response' = InvokeResult(out)
         /\ pc' = IF out.raised /\ calls["LLM"] = 0 THEN "invoke" ELSE "done"
    /\ UNCHANGED <<env, history_table, request, weather_data, satellite_data,
                   historical_data, db_fail, open_connections, nreq, db_check,
                   nchecks>>

\* response = chain.invoke({...}) and the return / except that follows it
InvokeLLM ==
    /\ pc = "invoke"
    /\ invoke_args' = InvokeArgs(request, weather_data, satellite_data, historical_data)
    /\ calls' = [calls EXCEPT !["LLM"] = @ + 1]
    /\ \E out \in ChainInvoke(env.openai_api_key) :
         /\ llm_raised' = IF out.raised THEN "yes" ELSE "no"
         /\ response' = InvokeResult(out)
    /\ pc' = "done"
    /\ UNCHANGED <<env, history_table, request, weather_data, satellite_data,
                   historical_data, db_fail, open_connections, nreq, db_check,
                   nchecks>>

\* GET /api/db-check
CheckDatabaseConnection ==
    /\ nchecks < MaxDbChecks
    /\ \E fail \in DbFailures :
         LET r == check_database_connection(fail) IN
         /\ db_check' = r.answer
         /\ open_connections' =
               IF r.opened /\ ~r.closed THEN open_connections + 1 ELSE open_connections
    /\ nchecks' = nchecks + 1
    /\ UNCHANGED <<env, history_table, pc, run_vars, nreq>>

Next ==
    \/ ReceiveRequest
    \/ FetchWeather
    \/ FetchSatellite
    \/ FetchHistory
    \/ SetupLLM
    \/ InvokeLLM
    \/ CheckDatabaseConnection

\* ----------------------------------------------- reading a run's outcome
Done == pc = "done"

\* the run was answered {"status": "success", "analysis": ...}
IsSuccess(r) == r.code = 200 /\ r.status = "success"

\* the run was answered, and not with a success
IsFailure(r) == r.code # 0 /\ ~IsSuccess(r)

\* the text a failure carries
Message(r) == IF r.detail # "" THEN r.detail ELSE r.message

HasPrefix(str, prefix) ==
    Len(str) >= Len(prefix) /\ SubSeq(str, 1, Len(prefix)) = prefix

\* the stage a failure names: the only failure text of the endpoint that
\* names one is "LLM error: ..."
FailureStage(r) ==
    IF IsFailure(r) /\ HasPrefix(Message(r), "LLM error: ") THEN "LLM" ELSE "none"

\* the historical store's connection or query failed in this run
HistoryFailed == db_fail \in {"connect", "cursor", "execute", "fetchone"}

\* the lookup of this run succeeded and fetchone returned nothing
HistoryNotFound ==
    /\ db_fail = "none"
    /\ FetchOne(history_table, request.farm_location, request.crop_type) = <<>>

\* ------------------------------------------------------------------ claims

\* C1: whenever a data source failed in a run, the LLM is never invoked in
\* that run and the run ends in a failure result.
C1_FailureSkipsLLM ==
    HistoryFailed =>
        /\ calls["LLM"] = 0
        /\ Done => IsFailure(response)

\* C2: when the historical store's connection or query fails, the run ends in
\* a failure attributed to the History stage with a non-empty message, and the
\* error is not the text of historical_precedent.
C2_HistoryFailureTyped ==
    (Done /\ HistoryFailed) =>
        /\ IsFailure(response)
        /\ FailureStage(response) = "History"
        /\ Message(response) # ""
        /\ historical_data.value # ErrorText

C4_ResultWellFormed ==
    Done =>
        \/ IsSuccess(response) /\ response.analysis # ""
        \/ IsFailure(response) /\ FailureStage(response) \in Stages

\* C5: when the three data sources succeeded and chain.invoke raised, the run
\* ends in a failure of the LLM stage with a non-empty message, never a success.
C5_LLMFailureTyped ==
    (Done /\ db_fail = "none" /\ llm_raised = "yes") =>
        /\ ~IsSuccess(response)
        /\ IsFailure(response)
        /\ response.code = 500
        /\ FailureStage(response) = "LLM"
        /\ Len(Message(response)) > 0

C5_Witness ==
    /\ Done /\ db_fail = "none" /\ llm_raised = "yes"
    /\ weather_data.bound /\ satellite_data.bound /\ historical_data.bound
    /\ response.detail = "LLM error: Request timed out."

C7_NoRetry ==
    [][ /\ \A s \in Stages : calls'[s] <= 1
        /\ llm_raised' = "yes" => pc' = "done"
        /\ pc = "done" =>
              \/ pc' = "done" /\ UNCHANGED run_vars
              \/ pc' = "weather" /\ nreq' = nreq + 1 /\ calls' = [s \in Stages |-> 0]
      ]_vars

C7_Witness ==
    /\ Done /\ nreq = MaxRequests
    /\ llm_raised = "yes"
    /\ HistoryFailed
    /\ calls = [s \in Stages |-> 1]

\* the run of this request met no failure
RunSucceeded == db_fail = "none" /\ llm_raised = "no"

\* C8: the endpoint answers {status: "success", analysis} exactly when the run
\* succeeded, and a 500 response carrying a message on every failure of the run.
C8_HttpMapping ==
    Done =>
        /\ IsSuccess(response) <=> RunSucceeded
        /\ ~RunSucceeded => (response.code = 500 /\ Message(response) # "")

\* C9: with a required credential or connection parameter absent, the run
\* fails at its first use with a configuration error: not the generic answer
\* to an unhandled exception, not an LLM-stage error, not history text that
\* flows into the prompt.
C9_ConfigurationError ==
    (Done /\ (~env.openai_api_key \/ ~env.db_params)) =>
        /\ IsFailure(response)
        /\ response # UnhandledException
        /\ FailureStage(response) # "LLM"
        /\ historical_data.value # ErrorText
        /\ ~env.db_params => calls["LLM"] = 0

\* C10: no connection stays open once query_tidb_history or
\* check_database_connection has returned or raised.
C10_ConnectionsClosed == open_connections = 0


Spec == Init /\ [][Next]_vars
====
